---- MODULE Spec2Model ----
(***************************************************************************)
(* Model of src/server.py: the Flask size calculator.  The state is the    *)
(* SQLite table size_records, the write transactions of the calculate      *)
(* handlers in flight, the responses they gave, the wall clock and the     *)
(* last answer of get_records.                                             *)
(*                                                                         *)
(* Numbers: Python floats are modelled as records [nan, n] with n an       *)
(* integer number of centimetres or kilograms (bmi: tenths).  Strings of   *)
(* created_at are sequences of character codes, compared as SQLite's       *)
(* BINARY collation compares TEXT.                                         *)
(***************************************************************************)
EXTENDS Integers, Sequences, FiniteSets, TLC

VARIABLES
    table,      \* committed rows of size_records, in rowid order
    seq,        \* sqlite_sequence.seq of size_records (AUTOINCREMENT)
    lock,       \* request holding SQLite's write lock, 0 when free
    txn,        \* txn[r]: the uncommitted row of r's connection
    pc,         \* pc[r]: where calculate request r stands
    req,        \* req[r]: request.json of request r
    loc,        \* loc[r]: the locals of the handler of r
    resp,       \* resp[r]: the response r was given
    now,        \* the wall clock, in ticks
    tieOrder,   \* order in which this SQLite build returns rows with equal sort keys
    readResp,   \* the last response of get_records
    readTable,  \* the committed rows at the time of that get_records
    sizeCall    \* a direct call of calculate_size: its arguments and result

vars == <<table, seq, lock, txn, pc, req, loc, resp, now, tieOrder,
          readResp, readTable, sizeCall>>

\* ---------------------------------------------------------------- bounds and constants

\* Number of calculate requests.
MaxReqs == 2

\* Last tick of the clock.
MaxClock == 1

\* Ticks per second: stands for the 1,000,000 microseconds of datetime.
TicksPerSec == 2

\* LIMIT 20 of the SELECT of get_records (a program constant).
Limit == 20

Reqs == 1..MaxReqs

\* ---------------------------------------------------------------- floats

F(n) == [nan |-> FALSE, n |-> n]

NaN == [nan |-> TRUE, n |-> 0]

\* x < k of Python floats: every comparison with nan is False.
Lt(x, k) == (~x.nan) /\ x.n < k

Gt(x, k) == (~x.nan) /\ x.n > k

\* bool(x): 0.0 is falsy, nan is truthy.
Truthy(x) == x.nan \/ x.n # 0

\* ---------------------------------------------------------------- JSON values

\* A value of the JSON body under one key.
\*   absent: the key is missing        num: a number, or a string float() reads
\*   nan:    NaN or the string "nan"   str: a string float() does not read
\*   null:   JSON null                 list: a JSON array or object
Absent == [k |-> "absent", n |-> 0]

Num(n) == [k |-> "num", n |-> n]

NanVal == [k |-> "nan", n |-> 0]

Str == [k |-> "str", n |-> 0]

Null == [k |-> "null", n |-> 0]

List == [k |-> "list", n |-> 0]

\* data.get(key, 0)
GetOr0(v) == IF v.k = "absent" THEN Num(0) ELSE v

\* float(v): the value, or the exception raised.
Float(v) ==
    CASE v.k = "num" -> [err |-> "", val |-> F(v.n)]
      [] v.k = "nan" -> [err |-> "", val |-> NaN]
      [] v.k = "str" -> [err |-> "ValueError", val |-> F(0)]
      [] OTHER -> [err |-> "TypeError", val |-> F(0)]

\* gender: a string, absent (default 'female'), or JSON null.
GAbsent == [k |-> "absent", s |-> ""]

GStr(s) == [k |-> "str", s |-> s]

GNull == [k |-> "null", s |-> ""]

\* data.get('gender', 'female')
GetGender(g) == IF g.k = "absent" THEN GStr("female") ELSE g

\* ---------------------------------------------------------------- calculate_size

\* The mutant: the first female bust band closed at 80.
calculate_size_le(gender, bust, waist) ==
    LET top ==
            IF gender = GStr("female")
            THEN CASE Lt(bust, 81) -> "XS"
                   [] ~Lt(bust, 81) /\ Lt(bust, 85) -> "S"
                   [] ~Lt(bust, 85) /\ Lt(bust, 90) -> "M"
                   [] ~Lt(bust, 90) /\ Lt(bust, 95) -> "L"
                   [] ~Lt(bust, 95) /\ Lt(bust, 100) -> "XL"
                   [] OTHER -> "XXL"
            ELSE CASE Lt(bust, 88) -> "S"
                   [] ~Lt(bust, 88) /\ Lt(bust, 92) -> "M"
                   [] ~Lt(bust, 92) /\ Lt(bust, 96) -> "L"
                   [] ~Lt(bust, 96) /\ Lt(bust, 100) -> "XL"
                   [] OTHER -> "XXL"
        bottom ==
            IF gender = GStr("female")
            THEN CASE Lt(waist, 60) -> "XS"
                   [] ~Lt(waist, 60) /\ Lt(waist, 65) -> "S"
                   [] ~Lt(waist, 65) /\ Lt(waist, 70) -> "M"
                   [] ~Lt(waist, 70) /\ Lt(waist, 75) -> "L"
                   [] ~Lt(waist, 75) /\ Lt(waist, 80) -> "XL"
                   [] OTHER -> "XXL"
            ELSE CASE Lt(waist, 72) -> "S"
                   [] ~Lt(waist, 72) /\ Lt(waist, 76) -> "M"
                   [] ~Lt(waist, 76) /\ Lt(waist, 80) -> "L"
                   [] ~Lt(waist, 80) /\ Lt(waist, 85) -> "XL"
                   [] OTHER -> "XXL"
    IN  <<top, bottom>>

\* calculate_size(gender, bust, waist): the if/elif cascades, in order.
calculate_size(gender, bust, waist) ==
    LET top ==
            IF gender = GStr("female")
            THEN CASE Lt(bust, 80) -> "XS"
                   [] ~Lt(bust, 80) /\ Lt(bust, 85) -> "S"
                   [] ~Lt(bust, 85) /\ Lt(bust, 90) -> "M"
                   [] ~Lt(bust, 90) /\ Lt(bust, 95) -> "L"
                   [] ~Lt(bust, 95) /\ Lt(bust, 100) -> "XL"
                   [] OTHER -> "XXL"
            ELSE CASE Lt(bust, 88) -> "S"
                   [] ~Lt(bust, 88) /\ Lt(bust, 92) -> "M"
                   [] ~Lt(bust, 92) /\ Lt(bust, 96) -> "L"
                   [] ~Lt(bust, 96) /\ Lt(bust, 100) -> "XL"
                   [] OTHER -> "XXL"
        bottom ==
            IF gender = GStr("female")
            THEN CASE Lt(waist, 60) -> "XS"
                   [] ~Lt(waist, 60) /\ Lt(waist, 65) -> "S"
                   [] ~Lt(waist, 65) /\ Lt(waist, 70) -> "M"
                   [] ~Lt(waist, 70) /\ Lt(waist, 75) -> "L"
                   [] ~Lt(waist, 75) /\ Lt(waist, 80) -> "XL"
                   [] OTHER -> "XXL"
            ELSE CASE Lt(waist, 72) -> "S"
                   [] ~Lt(waist, 72) /\ Lt(waist, 76) -> "M"
                   [] ~Lt(waist, 76) /\ Lt(waist, 80) -> "L"
                   [] ~Lt(waist, 80) /\ Lt(waist, 85) -> "XL"
                   [] OTHER -> "XXL"
    IN  <<top, bottom>>

\* round(num / den) to the nearest integer, halves to even (Python's round).
RoundHalfEven(num, den) ==
    LET q == num \div den
        r == num % den
    IN  IF 2 * r < den THEN q
        ELSE IF 2 * r > den THEN q + 1
        ELSE IF q % 2 = 0 THEN q ELSE q + 1

\* round(weight / ((height / 100) ** 2), 1), in tenths; nan when an operand is.
Bmi(height, weight) ==
    IF height.nan \/ weight.nan THEN NaN
    ELSE F(RoundHalfEven(weight.n * 100000, height.n * height.n))

\* ---------------------------------------------------------------- created_at

Min(S) == CHOOSE x \in S : \A y \in S : x <= y

\* The character codes used: the digits, '.' and 'Z'.
Digit(d) == 48 + d

DotChar == 46

ZChar == 90

\* datetime.utcnow().isoformat() + 'Z' at tick t.  isoformat() writes the
\* seconds, and the fraction only when it is not zero.  The date and time of
\* day are fixed-width digits: one digit stands for them here, and one digit
\* for the six digits of the microseconds.
IsoFormat(t) ==
    LET sec == t \div TicksPerSec
        micro == t % TicksPerSec
    IN  <<Digit(sec)>>
        \o (IF micro = 0 THEN <<>> ELSE <<DotChar, Digit(micro)>>)
        \o <<ZChar>>

\* a < b as SQLite compares TEXT under the BINARY collation: memcmp over the
\* common length, then the shorter string first.
StrLt(a, b) ==
    LET m == IF Len(a) < Len(b) THEN Len(a) ELSE Len(b)
        diff == {i \in 1..m : a[i] # b[i]}
    IN  IF diff = {} THEN Len(a) < Len(b)
        ELSE a[Min(diff)] < b[Min(diff)]

\* ---------------------------------------------------------------- the store

NoRow == [id |-> 0]

\* AUTOINCREMENT: one more than the largest rowid the table ever held.
MaxRowid(rows) ==
    IF rows = <<>> THEN 0
    ELSE CHOOSE m \in {rows[i].id : i \in 1..Len(rows)} :
            \A i \in 1..Len(rows) : rows[i].id <= m

NextId == (IF seq > MaxRowid(table) THEN seq ELSE MaxRowid(table)) + 1

\* The mutant: writers that do not wait for one another.
CanWriteUnlocked == TRUE

\* An INSERT needs SQLite's write lock: one write transaction at a time.
CanWrite == lock = 0

\* NOT NULL: sqlite3 binds None and a nan float as NULL.
ConstraintFails(l) ==
    \/ l.gender.k = "null"
    \/ l.height.nan \/ l.weight.nan \/ l.bust.nan \/ l.waist.nan \/ l.hips.nan
    \/ l.bmi.nan

\* The mutant: a reader that also sees the rows of open transactions.
DirtyRows ==
    LET open == {r \in Reqs : txn[r] # NoRow}
        SeqOf[S \in SUBSET Reqs] ==
            IF S = {} THEN <<>>
            ELSE LET r == Min(S) IN <<txn[r]>> \o SeqOf[S \ {r}]
    IN  table \o SeqOf[open]

\* The rows a SELECT on a connection of its own sees: the committed ones.
VisibleRows == table

\* The rows 1..n of rows sorted by created_at, largest first, by insertion in
\* rowid order.  Rows with equal created_at come in rowid order ("asc") or
\* against it ("desc"), as the build does: the statement names no second key.
RECURSIVE SortRows(_, _, _)
SortRows(rows, tie, n) ==
    IF n = 0 THEN <<>>
    ELSE LET s == SortRows(rows, tie, n - 1)
             x == rows[n]
             p == Cardinality({k \in 1..Len(s) :
                      \/ StrLt(x.created_at, s[k].created_at)
                      \/ tie = "asc" /\ s[k].created_at = x.created_at})
         IN  SubSeq(s, 1, p) \o <<x>> \o SubSeq(s, p + 1, Len(s))

\* ORDER BY created_at DESC LIMIT 20
SelectRecent(rows, tie) ==
    LET n == Len(rows)
    IN  SubSeq(SortRows(rows, tie, n), 1, IF n < Limit THEN n ELSE Limit)

\* ---------------------------------------------------------------- responses

NoResp ==
    [status |-> 0, success |-> FALSE, error |-> "", top_size |-> "",
     bottom_size |-> "", bmi |-> F(0), record_id |-> 0]

\* jsonify({'success': False, 'error': ...}), status.  The errors:
\*   incomplete  数据不完整          height  身高数据不合理
\*   format      数据格式错误: ...   db      数据库错误: ...
\*   server      服务器错误: ...
ErrorResp(status, error) == [NoResp EXCEPT !.status = status, !.error = error]

OkResp(l) ==
    [status |-> 200, success |-> TRUE, error |-> "", top_size |-> l.top_size,
     bottom_size |-> l.bottom_size, bmi |-> l.bmi, record_id |-> l.record_id]

NoLoc == [set |-> FALSE]

\* request.json before the request is made.
NoBody ==
    [kind |-> "none", gender |-> GAbsent, height |-> Absent, weight |-> Absent,
     bust |-> Absent, waist |-> Absent, hips |-> Absent]

\* A JSON object with these values under the six keys.
Body(g, h, w, b, wa, hi) ==
    [kind |-> "object", gender |-> g, height |-> h, weight |-> w, bust |-> b,
     waist |-> wa, hips |-> hi]

\* A body that is no JSON object (a list, a string, no JSON at all):
\* data.get, or request.json itself, raises, and `except Exception` answers.
NotObject == [NoBody EXCEPT !.kind = "other"]

\* ---------------------------------------------------------------- calculate

\* height, weight, bust, waist, hips = float(data.get(.., 0)), in this order.
Parsed(b) ==
    <<Float(GetOr0(b.height)), Float(GetOr0(b.weight)), Float(GetOr0(b.bust)),
      Float(GetOr0(b.waist)), Float(GetOr0(b.hips))>>

\* The exception of the first float() that raises, "" when none does.
FirstError(fs) ==
    LET errs == {i \in 1..5 : fs[i].err # ""}
    IN  IF errs = {} THEN "" ELSE fs[Min(errs)].err

\* The mutant: hips left out of the completeness check.
IncompleteNoHips(fs) == \E i \in 1..4 : ~Truthy(fs[i].val)

\* not all([height, weight, bust, waist, hips])
Incomplete(fs) == \E i \in 1..5 : ~Truthy(fs[i].val)

\* The mutant: height 100 itself refused.
HeightUnreasonableLe(height) == Lt(height, 101) \/ Gt(height, 250)

\* height < 100 or height > 250
HeightUnreasonable(height) == Lt(height, 100) \/ Gt(height, 250)

\* The response of a request the handler ends before the classifier, NoResp
\* when it goes on.  ValueError is answered 400, any other exception 500.
Validate(b) ==
    IF b.kind # "object" THEN ErrorResp(500, "server")
    ELSE LET fs == Parsed(b)
         IN  IF FirstError(fs) = "ValueError" THEN ErrorResp(400, "format")
             ELSE IF FirstError(fs) # "" THEN ErrorResp(500, "server")
             ELSE IF Incomplete(fs) THEN ErrorResp(400, "incomplete")
             ELSE IF HeightUnreasonable(fs[1].val) THEN ErrorResp(400, "height")
             ELSE NoResp

\* The locals of the handler once the sizes, the bmi and created_at are computed.
Locals(b, t) ==
    LET fs == Parsed(b)
        gender == GetGender(b.gender)
        sizes == calculate_size(gender, fs[3].val, fs[4].val)
    IN  [set |-> TRUE, gender |-> gender, height |-> fs[1].val,
         weight |-> fs[2].val, bust |-> fs[3].val, waist |-> fs[4].val,
         hips |-> fs[5].val, top_size |-> sizes[1], bottom_size |-> sizes[2],
         bmi |-> Bmi(fs[1].val, fs[2].val), created_at |-> IsoFormat(t),
         record_id |-> 0]

\* The row the INSERT writes.  req is not a column: it names the request that
\* wrote the row.
Row(r, l, id) ==
    [id |-> id, req |-> r, gender |-> l.gender, height |-> l.height,
     weight |-> l.weight, bust |-> l.bust, waist |-> l.waist, hips |-> l.hips,
     top_size |-> l.top_size, bottom_size |-> l.bottom_size, bmi |-> l.bmi,
     created_at |-> l.created_at]

\* POST /api/calculate with body b, up to the evaluation of the arguments of
\* the INSERT (datetime.utcnow() among them): the request is answered 400 or
\* 500, or stands before cursor.execute with its row computed.
Calculate(r, b) ==
    /\ pc[r] = "new"
    /\ req' = [req EXCEPT ![r] = b]
    /\ IF Validate(b) # NoResp
       THEN /\ resp' = [resp EXCEPT ![r] = Validate(b)]
            /\ pc' = [pc EXCEPT ![r] = "done"]
            /\ loc' = loc
       ELSE /\ loc' = [loc EXCEPT ![r] = Locals(b, now)]
            /\ pc' = [pc EXCEPT ![r] = "stamped"]
            /\ resp' = resp
    /\ UNCHANGED <<table, seq, lock, txn, now, tieOrder, readResp, readTable,
                   sizeCall>>

\* cursor.execute(INSERT ...) succeeds: the connection takes the write lock
\* and holds the new row, uncommitted; cursor.lastrowid is its id.
Execute(r) ==
    /\ pc[r] = "stamped"
    /\ CanWrite
    /\ ~ConstraintFails(loc[r])
    /\ txn' = [txn EXCEPT ![r] = Row(r, loc[r], NextId)]
    /\ loc' = [loc EXCEPT ![r].record_id = NextId]
    /\ lock' = r
    /\ pc' = [pc EXCEPT ![r] = "inserted"]
    /\ UNCHANGED <<table, seq, req, resp, now, tieOrder, readResp, readTable,
                   sizeCall>>

\* sqlite3.connect or cursor.execute raises (the database is locked past
\* the timeout, a NOT NULL constraint fails, the disk is full): 500.
ExecuteFail(r) ==
    /\ pc[r] = "stamped"
    /\ resp' = [resp EXCEPT ![r] = ErrorResp(500, "db")]
    /\ loc' = [loc EXCEPT ![r] = NoLoc]
    /\ pc' = [pc EXCEPT ![r] = "done"]
    /\ UNCHANGED <<table, seq, lock, txn, req, now, tieOrder, readResp,
                   readTable, sizeCall>>

\* The mutant: the handler answers without having committed; closing the
\* connection rolls the row back.
CommitForgotten(r) ==
    /\ pc[r] = "inserted"
    /\ txn' = [txn EXCEPT ![r] = NoRow]
    /\ lock' = 0
    /\ pc' = [pc EXCEPT ![r] = "committed"]
    /\ UNCHANGED <<table, seq, req, loc, resp, now, tieOrder, readResp,
                   readTable, sizeCall>>

\* conn.commit() succeeds; conn.close().
Commit(r) ==
    /\ pc[r] = "inserted"
    /\ table' = Append(table, txn[r])
    /\ seq' = txn[r].id
    /\ txn' = [txn EXCEPT ![r] = NoRow]
    /\ lock' = 0
    /\ pc' = [pc EXCEPT ![r] = "committed"]
    /\ UNCHANGED <<req, loc, resp, now, tieOrder, readResp, readTable, sizeCall>>

\* The mutant: the row is written although the commit is reported failed.
CommitFailKeepsRow(r) ==
    /\ pc[r] = "inserted"
    /\ table' = Append(table, txn[r])
    /\ seq' = txn[r].id
    /\ txn' = [txn EXCEPT ![r] = NoRow]
    /\ lock' = 0
    /\ resp' = [resp EXCEPT ![r] = ErrorResp(500, "db")]
    /\ loc' = [loc EXCEPT ![r] = NoLoc]
    /\ pc' = [pc EXCEPT ![r] = "done"]
    /\ UNCHANGED <<req, now, tieOrder, readResp, readTable, sizeCall>>

\* conn.commit() raises: 500, and the connection is dropped with the
\* handler's frame, which rolls its transaction back.
CommitFail(r) ==
    /\ pc[r] = "inserted"
    /\ txn' = [txn EXCEPT ![r] = NoRow]
    /\ lock' = 0
    /\ resp' = [resp EXCEPT ![r] = ErrorResp(500, "db")]
    /\ loc' = [loc EXCEPT ![r] = NoLoc]
    /\ pc' = [pc EXCEPT ![r] = "done"]
    /\ UNCHANGED <<table, seq, req, now, tieOrder, readResp, readTable, sizeCall>>

\* return jsonify({'success': True, ...}) after the commit.
Respond(r) ==
    /\ pc[r] = "committed"
    /\ resp' = [resp EXCEPT ![r] = OkResp(loc[r])]
    /\ loc' = [loc EXCEPT ![r] = NoLoc]
    /\ pc' = [pc EXCEPT ![r] = "done"]
    /\ UNCHANGED <<table, seq, lock, txn, req, now, tieOrder, readResp,
                   readTable, sizeCall>>

\* OPTIONS /api/calculate: '', 204.
Preflight == UNCHANGED vars

\* ---------------------------------------------------------------- the other routes

NoRead == [status |-> 0, success |-> FALSE, count |-> 0, records |-> <<>>]

\* GET /api/records: the SELECT and the list built from its rows.
GetRecords ==
    LET rows == SelectRecent(VisibleRows, tieOrder)
    IN  /\ readResp' = [status |-> 200, success |-> TRUE, count |-> Len(rows),
                        records |-> rows]
        /\ readTable' = table
        /\ UNCHANGED <<table, seq, lock, txn, pc, req, loc, resp, now, tieOrder,
                       sizeCall>>

\* GET /api/records when connect or the SELECT raises: 500.
GetRecordsFail ==
    /\ readResp' = [NoRead EXCEPT !.status = 500]
    /\ readTable' = table
    /\ UNCHANGED <<table, seq, lock, txn, pc, req, loc, resp, now, tieOrder,
                   sizeCall>>

\* GET /api/health
health_check == UNCHANGED vars

\* GET / and GET /admin
home == UNCHANGED vars

\* The wall clock advances.
Tick ==
    /\ now < MaxClock
    /\ now' = now + 1
    /\ UNCHANGED <<table, seq, lock, txn, pc, req, loc, resp, tieOrder,
                   readResp, readTable, sizeCall>>

\* ---------------------------------------------------------------- specifications

NoCall ==
    [called |-> FALSE, gender |-> GAbsent, bust |-> F(0), waist |-> F(0),
     top |-> "", bottom |-> ""]

\* The handlers and the clock when the server starts.
InitServer ==
    /\ lock = 0
    /\ txn = [r \in Reqs |-> NoRow]
    /\ pc = [r \in Reqs |-> "new"]
    /\ req = [r \in Reqs |-> NoBody]
    /\ loc = [r \in Reqs |-> NoLoc]
    /\ resp = [r \in Reqs |-> NoResp]
    /\ now = 0
    /\ tieOrder \in {"asc", "desc"}
    /\ readResp = NoRead
    /\ readTable = <<>>

\* init_database() on a fresh file: an empty table.
Init ==
    /\ table = <<>>
    /\ seq = 0
    /\ InitServer
    /\ sizeCall = NoCall

\* The bodies of the requests of Spec: two complete ones, one without hips.
StoreBodies ==
    {Body(GStr("female"), Num(165), Num(55), Num(85), Num(65), Num(90)),
     Body(GStr("male"), Num(180), Num(75), Num(90), Num(78), Num(95)),
     Body(GStr("female"), Num(165), Num(55), Num(85), Num(65), Absent)}

\* Requests are numbered as they arrive.
Arriving(r) == pc[r] = "new" /\ \A q \in Reqs : q < r => pc[q] # "new"

Next ==
    \/ \E r \in Reqs : Arriving(r) /\ \E b \in StoreBodies : Calculate(r, b)
    \/ \E r \in Reqs : Execute(r)
    \/ \E r \in Reqs : ExecuteFail(r)
    \/ \E r \in Reqs : Commit(r)
    \/ \E r \in Reqs : CommitFail(r)
    \/ \E r \in Reqs : Respond(r)
    \/ Preflight
    \/ GetRecords
    \/ GetRecordsFail
    \/ health_check
    \/ home
    \/ Tick

Spec == Init /\ [][Next]_vars

\* ---- calculate_size called directly

SizeGenders == {GStr("female"), GStr("male"), GStr("other"), GStr("")}

\* Every threshold of the four cascades, with the integer below and above.
SizeBusts ==
    {79, 80, 81, 84, 85, 86, 87, 88, 89, 90, 91, 92, 93, 94, 95, 96, 97, 99,
     100, 101}

SizeWaists ==
    {59, 60, 61, 64, 65, 66, 69, 70, 71, 72, 73, 74, 75, 76, 77, 78, 79, 80,
     81, 84, 85, 86}

InitSize ==
    /\ table = <<>>
    /\ seq = 0
    /\ InitServer
    /\ \E g \in SizeGenders, b \in SizeBusts, w \in SizeWaists :
          sizeCall = [NoCall EXCEPT !.gender = g, !.bust = F(b), !.waist = F(w)]

\* top, bottom = calculate_size(gender, bust, waist)
CallSize ==
    /\ ~sizeCall.called
    /\ sizeCall' =
          [sizeCall EXCEPT
              !.called = TRUE,
              !.top = calculate_size(sizeCall.gender, sizeCall.bust, sizeCall.waist)[1],
              !.bottom = calculate_size(sizeCall.gender, sizeCall.bust, sizeCall.waist)[2]]
    /\ UNCHANGED <<table, seq, lock, txn, pc, req, loc, resp, now, tieOrder,
                   readResp, readTable>>

NextSize == CallSize

SpecSize == InitSize /\ [][NextSize]_vars

\* ---- one request at a time, over every shape of body

ValidateBodies ==
    {Body(g, h, w, b, wa, hi) :
        g \in {GAbsent, GStr("female"), GStr("male"), GNull},
        h \in {Absent, Num(0), Num(99), Num(100), Num(250), Num(251), NanVal,
               Str, Null},
        w \in {Absent, Num(0), Num(60), Str, Null},
        b \in {Absent, Num(0), Num(85), Str},
        wa \in {Absent, Num(0), Num(65), List},
        hi \in {Absent, Num(0), Num(90), Str, Null, List}}
    \cup {NotObject}

NextValidate ==
    \/ pc[1] = "new" /\ \E b \in ValidateBodies : Calculate(1, b)
    \/ Execute(1)
    \/ ExecuteFail(1)
    \/ Commit(1)
    \/ CommitFail(1)
    \/ Respond(1)

SpecValidate == Init /\ [][NextValidate]_vars

\* ---- a server started on the file an earlier run left

\* A row of the earlier run: its requests were stamped within one tick.
OldRow(i) ==
    Row(0, Locals(Body(GStr("female"), Num(165), Num(55), Num(85), Num(65),
                       Num(90)), 0), i)

\* init_database() on an existing file: CREATE TABLE IF NOT EXISTS keeps
\* the rows, and sqlite_sequence their last id.
InitRestart ==
    /\ \E n \in {Limit - 1, Limit} :
          /\ table = [i \in 1..n |-> OldRow(i)]
          /\ seq = n
    /\ InitServer
    /\ sizeCall = NoCall

SpecRestart == InitRestart /\ [][Next]_vars

\* ================================================================ claims

\* The ladders of the specification: the bands in order, each with its
\* exclusive upper bound, and the size of the open last band.
FemaleTop == <<<<80, "XS">>, <<85, "S">>, <<90, "M">>, <<95, "L">>, <<100, "XL">>>>

FemaleBottom == <<<<60, "XS">>, <<65, "S">>, <<70, "M">>, <<75, "L">>, <<80, "XL">>>>

MaleTop == <<<<88, "S">>, <<92, "M">>, <<96, "L">>, <<100, "XL">>>>

MaleBottom == <<<<72, "S">>, <<76, "M">>, <<80, "L">>, <<85, "XL">>>>

Band(ladder, x) ==
    LET under == {i \in 1..Len(ladder) : x < ladder[i][1]}
    IN  IF under = {} THEN "XXL" ELSE ladder[Min(under)][2]

\* C1: calculate_size returns the sizes of the ladders, the female ones for
\* gender "female" and the male ones for any other gender; ("female", 85, 65)
\* gives (M, M) and ("male", 90, 78) gives (M, L).
C1_Ladders ==
    sizeCall.called =>
        /\ sizeCall.top =
              Band(IF sizeCall.gender.s = "female" THEN FemaleTop ELSE MaleTop,
                   sizeCall.bust.n)
        /\ sizeCall.bottom =
              Band(IF sizeCall.gender.s = "female" THEN FemaleBottom ELSE MaleBottom,
                   sizeCall.waist.n)
        /\ (sizeCall.gender.s = "female" /\ sizeCall.bust.n = 85 /\ sizeCall.waist.n = 65
               => sizeCall.top = "M" /\ sizeCall.bottom = "M")
        /\ (sizeCall.gender.s = "male" /\ sizeCall.bust.n = 90 /\ sizeCall.waist.n = 78
               => sizeCall.top = "M" /\ sizeCall.bottom = "L")

C1_Witness ==
    /\ sizeCall.called
    /\ sizeCall.gender.s = "other"
    /\ sizeCall.bust.n = 88
    /\ sizeCall.waist.n = 85
    /\ sizeCall.top = "M"
    /\ sizeCall.bottom = "XXL"

RowsOf(r) == {i \in 1..Len(table) : table[i].req = r}

\* C2: the ids of the stored rows are distinct and increase in insertion
\* order, and the record_id a request is answered is the id of the one row
\* that request inserted.
C2_Ids ==
    /\ \A i, j \in 1..Len(table) : i < j => table[i].id < table[j].id
    /\ \A r \in Reqs :
          resp[r].success =>
              /\ Cardinality(RowsOf(r)) = 1
              /\ \A i \in RowsOf(r) : table[i].id = resp[r].record_id

\* Two requests interleaved: the second to arrive inserted first.
C2_Witness ==
    /\ Len(table) = 2
    /\ table[1].req = 2
    /\ table[2].req = 1
    /\ resp[1].success
    /\ resp[2].success

\* C3: get_records returns the min(20, n) rows inserted last, ordered by
\* created_at descending, rows with equal created_at by id descending.
C3_ListRecent ==
    readResp.success =>
        LET n == Len(readTable)
            k == IF n < Limit THEN n ELSE Limit
            recs == readResp.records
        IN  /\ Len(recs) = k
            /\ {recs[i].id : i \in 1..Len(recs)}
                  = {readTable[i].id : i \in (n - k + 1)..n}
            /\ \A i, j \in 1..Len(recs) :
                  i < j =>
                      \/ StrLt(recs[j].created_at, recs[i].created_at)
                      \/ /\ recs[i].created_at = recs[j].created_at
                         /\ recs[i].id > recs[j].id

\* The fields of a row equal what request r submitted and was answered.
IsRecordOf(rec, r) ==
    /\ rec.id = resp[r].record_id
    /\ rec.gender = GetGender(req[r].gender)
    /\ rec.height = Float(req[r].height).val
    /\ rec.weight = Float(req[r].weight).val
    /\ rec.bust = Float(req[r].bust).val
    /\ rec.waist = Float(req[r].waist).val
    /\ rec.hips = Float(req[r].hips).val
    /\ rec.top_size = resp[r].top_size
    /\ rec.bottom_size = resp[r].bottom_size
    /\ rec.bmi = resp[r].bmi

\* C4: after a calculate request succeeded, a get_records with no other
\* insert in between returns the row just inserted, with the answered id and
\* the submitted and computed fields.
C4_RoundTrip ==
    \A r \in Reqs :
        (/\ resp[r].success
         /\ readResp.success
         /\ readTable = table
         /\ table # <<>>
         /\ table[Len(table)].req = r)
        => \E i \in 1..Len(readResp.records) : IsRecordOf(readResp.records[i], r)

Five(b) == {b.height, b.weight, b.bust, b.waist, b.hips}

\* Request r passed the validation: it went on to the classifier and the INSERT.
Accepted(r) ==
    \/ pc[r] \in {"stamped", "inserted", "committed"}
    \/ pc[r] = "done" /\ (resp[r].success \/ resp[r].error = "db")

\* Nothing of request r reached the classifier or the store.
Untouched(r) == loc[r] = NoLoc /\ txn[r] = NoRow /\ RowsOf(r) = {}

\* C5: with five non-zero measurements, a request is accepted when
\* 100 <= height <= 250 and rejected 400 "unreasonable height" otherwise,
\* and a rejected request runs neither the classifier nor the insert.
C5_HeightRange ==
    \A r \in Reqs :
        (/\ pc[r] # "new"
         /\ req[r].kind = "object"
         /\ \A v \in Five(req[r]) : v.k = "num" /\ v.n # 0)
        => /\ (req[r].height.n >= 100 /\ req[r].height.n <= 250) => Accepted(r)
           /\ (req[r].height.n < 100 \/ req[r].height.n > 250)
                 => /\ pc[r] = "done"
                    /\ resp[r] = ErrorResp(400, "height")
                    /\ Untouched(r)

C5_Witness ==
    /\ pc[1] = "done"
    /\ req[1].height = Num(100)
    /\ resp[1].success
    /\ resp[1].record_id = 1

\* C6 as stated: a request in which any of the five measurements is absent or
\* zero is rejected 400 "incomplete data".
C6_Original ==
    \A r \in Reqs :
        (/\ pc[r] # "new"
         /\ req[r].kind = "object"
         /\ \E v \in Five(req[r]) : v = Absent \/ v = Num(0))
        => resp[r] = ErrorResp(400, "incomplete")

\* C6 amended: a request in which each of the five measurements is absent or
\* a value float() reads, and one of them is absent or zero, is rejected 400
\* "incomplete data", hips included and before the height range is looked at.
C6_Incomplete ==
    \A r \in Reqs :
        (/\ pc[r] # "new"
         /\ req[r].kind = "object"
         /\ \A v \in Five(req[r]) : v.k \in {"absent", "num", "nan"}
         /\ \E v \in Five(req[r]) : v = Absent \/ v = Num(0))
        => /\ pc[r] = "done"
           /\ resp[r] = ErrorResp(400, "incomplete")
           /\ Untouched(r)

\* Only hips is missing; and a height of 0 is reported as incomplete data.
C6_Witness ==
    /\ pc[1] = "done"
    /\ req[1].hips = Absent
    /\ req[1].height = Num(0)
    /\ \A v \in {req[1].weight, req[1].bust, req[1].waist} : v.k = "num" /\ v.n # 0
    /\ resp[1] = ErrorResp(400, "incomplete")

\* C7: a request with a measurement that cannot be read as a number, or with
\* a body that is no JSON object, ends 400 with {success: false, error}.
C7_Malformed ==
    \A r \in Reqs :
        (/\ pc[r] # "new"
         /\ \/ req[r].kind = "other"
            \/ \E v \in Five(req[r]) : v.k \in {"str", "null", "list"})
        => /\ pc[r] = "done"
           /\ resp[r].status = 400
           /\ ~resp[r].success
           /\ resp[r].error # ""

InTable(rec, rows) == \E i \in 1..Len(rows) : rows[i] = rec

\* C8: success is answered only once the row with the answered id is
\* committed, and every get_records from then on selects from rows that
\* include it (and returns it while the table holds no more than the LIMIT);
\* a failed INSERT or commit is answered 500 with {success: false, error},
\* and no row of that request, nor any uncommitted row, reaches a reader.
C8_CommitBeforeAnswer ==
    [][/\ \A r \in Reqs :
             resp'[r].success =>
                 \E i \in 1..Len(table') :
                     table'[i].req = r /\ table'[i].id = resp'[r].record_id
       /\ \A r \in Reqs :
             (resp[r].success /\ GetRecords /\ Len(table) <= Limit) =>
                 \E k \in 1..Len(readResp'.records) :
                     /\ readResp'.records[k].req = r
                     /\ readResp'.records[k].id = resp[r].record_id
       /\ \A r \in Reqs :
             (ExecuteFail(r) \/ CommitFail(r)) =>
                 resp'[r].status = 500 /\ ~resp'[r].success /\ resp'[r].error # ""
       /\ \A r \in Reqs :
             resp'[r].status = 500 =>
                 /\ \A i \in 1..Len(table') : table'[i].req # r
                 /\ \A k \in 1..Len(readResp'.records) : readResp'.records[k].req # r
       /\ \A k \in 1..Len(readResp'.records) :
             InTable(readResp'.records[k], table')
      ]_vars

\* One request failed with 500, the other succeeded and a reader got its row.
C8_Witness ==
    /\ resp[1].status = 500
    /\ resp[2].success
    /\ readResp.success
    /\ readTable = table
    /\ Len(readResp.records) = 1
    /\ readResp.records[1].id = resp[2].record_id

\* C9: the only step that changes the stored rows is the commit of a
\* calculate request, which appends one row and changes no other; a request
\* that answered success has exactly one row and any other answered request
\* none, so the table holds one row per request that committed.
C9_Frame ==
    [][/\ Len(table') >= Len(table)
       /\ Len(table') <= Len(table) + 1
       /\ \A i \in 1..Len(table) : table'[i] = table[i]
       /\ table' # table =>
             \E r \in Reqs :
                 /\ pc[r] = "inserted"
                 /\ pc'[r] = "committed"
                 /\ table'[Len(table')].req = r
       /\ \A r \in Reqs :
             pc'[r] = "done" =>
                 Cardinality({i \in 1..Len(table') : table'[i].req = r})
                     = IF resp'[r].success THEN 1 ELSE 0
       /\ (\A r \in Reqs : pc'[r] \in {"new", "done"}) =>
             Len(table') = Cardinality({r \in Reqs : resp'[r].success})
      ]_vars

\* One request rejected with 400, one stored and answered, and a read made.
C9_Witness ==
    /\ \A r \in Reqs : pc[r] = "done"
    /\ resp[1].status = 400
    /\ resp[2].success
    /\ Len(table) = 1
    /\ readResp.success

====
